---------------------------- MODULE Spec2Model ----------------------------
(***************************************************************************)
(* Geohash proximity search (geohash.utils.ts, geohash.service.ts).        *)
(*                                                                         *)
(* Numbers.  Angles are whole "ticks": one tick is 180/2^23 degrees, so    *)
(* latitude ranges over -2^22..2^22 and longitude over -2^23..2^23.  Every *)
(* bisection midpoint of a hash of at most 9 characters (23 longitude      *)
(* bits, 22 latitude bits) and every cell centre is a whole number of      *)
(* ticks, so the floating-point arithmetic of the codec is exact on these  *)
(* inputs and is reproduced exactly here.  Radii are whole metres; the     *)
(* numbers the program computes from them and from the angles (radians,    *)
(* kilometres) are IEEE 754 doubles, computed bit by bit.  Math.sin,       *)
(* Math.cos and Math.atan2 are computed as the engine's library (fdlibm)   *)
(* computes them, operation by operation.                                  *)
(*                                                                         *)
(* Strings are sequences of character codes (ASCII), so that the store's   *)
(* lexicographic order, "~" included, is the real one.                     *)
(***************************************************************************)
EXTENDS Integers, Sequences, FiniteSets, TLC

VARIABLES
    store,      \* the collection: a set of documents [id, data]
    field,      \* the field path of the GeoData, split at ".": <<"loc", "geo">>
    pc,         \* "idle" | "await" (inside Promise.all) | "done"
    center,     \* performSearch: center
    radius,     \* performSearch: radius, in metres (the program holds Km(radius))
    area,       \* performSearch: neighbors(centerHash).concat(centerHash)
    status,     \* per cell query: "pending" | "resolved" | "rejected"
    queries,    \* per cell query: the value its promise resolved with
    outcome,    \* performSearch's promise: "pending" | "fulfilled" | "rejected"
    result,     \* the list performSearch resolved with
    error,      \* what performSearch rejected with
    gets,       \* how many times query.get() was called
    call        \* the last call of a pure function: [op, ..., ret]

vars == <<store, field, pc, center, radius, area, status, queries, outcome,
          result, error, gets, call>>

searchVars == <<store, field, pc, center, radius, area, status, queries,
                outcome, result, error, gets>>

-----------------------------------------------------------------------------
(* JavaScript values *)

JSUndefined == [t |-> "undefined"]
JSNumber(n) == [t |-> "number", v |-> n]
JSString(s) == [t |-> "string", v |-> s]
JSObject(props) == [t |-> "object", v |-> props]

\* obj[key] on an object: undefined for a key the object does not hold
Get(obj, key) == IF key \in DOMAIN obj.v THEN obj.v[key] ELSE JSUndefined

\* { ...a, ...b }: the keys of b override those of a
Spread(a, b) ==
    JSObject([k \in (DOMAIN a.v) \cup (DOMAIN b.v) |->
                 IF k \in DOMAIN b.v THEN b.v[k] ELSE a.v[k]])

-----------------------------------------------------------------------------
(* Units *)

HalfTurn == 2^23            \* 180 degrees, in ticks
MaxLat == HalfTurn \div 2   \*  90 degrees
MaxLon == HalfTurn          \* 180 degrees

Abs(x) == IF x < 0 THEN -x ELSE x

-----------------------------------------------------------------------------
(* geohash.utils.ts: the codec *)

\* "0123456789bcdefghjkmnpqrstuvwxyz"
BASE32_CODES ==
    << 48, 49, 50, 51, 52, 53, 54, 55, 56, 57,
       98, 99, 100, 101, 102, 103, 104, 106, 107, 109, 110,
       112, 113, 114, 115, 116, 117, 118, 119, 120, 121, 122 >>

Alphabet == { BASE32_CODES[i] : i \in 1..Len(BASE32_CODES) }

BASE32_CODES_DICT ==
    [c \in Alphabet |-> (CHOOSE i \in 1..Len(BASE32_CODES) : BASE32_CODES[i] = c) - 1]

Tilde == 126    \* "~"

\* String.prototype.toLowerCase on one character
toLowerCase(c) == IF c \in 65..90 THEN c + 32 ELSE c

\* BASE32_CODES_DICT[code]: undefined for a key the dictionary does not hold
DictLookup(code) ==
    IF code \in DOMAIN BASE32_CODES_DICT
    THEN JSNumber(BASE32_CODES_DICT[code])
    ELSE JSUndefined

\* (hashValue >> bits) & 1, where ToInt32(undefined) = 0
BitOf(hashValue, bits) ==
    IF hashValue.t = "number" THEN (hashValue.v \div (2^bits)) % 2 ELSE 0

\* one pass of the while loop of encode (lines 57-86); st holds the loop's
\* locals: chars, bits, bitsTotal, hash_value, maxLat, minLat, maxLon, minLon
RECURSIVE encodeLoop(_, _, _, _)
encodeLoop(latitude, longitude, numberOfChars, st) ==
    IF Len(st.chars) >= numberOfChars THEN st.chars
    ELSE
      LET isLon == (st.bitsTotal % 2 = 0)
          mid == IF isLon THEN (st.maxLon + st.minLon) \div 2
                          ELSE (st.maxLat + st.minLat) \div 2
          up == IF isLon THEN longitude > mid ELSE latitude > mid
          hv == st.hash_value * 2 + (IF up THEN 1 ELSE 0)
          full == (st.bits + 1 = 5)
      IN encodeLoop(latitude, longitude, numberOfChars,
           [chars |-> IF full THEN Append(st.chars, BASE32_CODES[hv + 1])
                              ELSE st.chars,
            bits |-> IF full THEN 0 ELSE st.bits + 1,
            bitsTotal |-> st.bitsTotal + 1,
            hash_value |-> IF full THEN 0 ELSE hv,
            maxLat |-> IF ~isLon /\ ~up THEN mid ELSE st.maxLat,
            minLat |-> IF ~isLon /\ up THEN mid ELSE st.minLat,
            maxLon |-> IF isLon /\ ~up THEN mid ELSE st.maxLon,
            minLon |-> IF isLon /\ up THEN mid ELSE st.minLon])

\* encode with the first bit taken for the latitude
encodeLatFirst(latitude, longitude, numberOfChars) ==
    encodeLoop(latitude, longitude, numberOfChars,
        [chars |-> <<>>, bits |-> 0, bitsTotal |-> 1, hash_value |-> 0,
         maxLat |-> MaxLat, minLat |-> -MaxLat,
         maxLon |-> MaxLon, minLon |-> -MaxLon])

\* encode(latitude, longitude, numberOfChars), numberOfChars a number
encode(latitude, longitude, numberOfChars) ==
    encodeLoop(latitude, longitude, numberOfChars,
        [chars |-> <<>>, bits |-> 0, bitsTotal |-> 0, hash_value |-> 0,
         maxLat |-> MaxLat, minLat |-> -MaxLat,
         maxLon |-> MaxLon, minLon |-> -MaxLon])

\* the five bisections of one character (lines 110-128); box is
\* [isLon, minLat, minLon, maxLat, maxLon]
RECURSIVE decodeBits(_, _, _)
decodeBits(hashValue, bits, box) ==
    IF bits < 0 THEN box
    ELSE
      LET bit == BitOf(hashValue, bits)
          mid == IF box.isLon THEN (box.maxLon + box.minLon) \div 2
                              ELSE (box.maxLat + box.minLat) \div 2
          nbox == IF box.isLon
                  THEN IF bit = 1 THEN [box EXCEPT !.minLon = mid, !.isLon = FALSE]
                                  ELSE [box EXCEPT !.maxLon = mid, !.isLon = FALSE]
                  ELSE IF bit = 1 THEN [box EXCEPT !.minLat = mid, !.isLon = TRUE]
                                  ELSE [box EXCEPT !.maxLat = mid, !.isLon = TRUE]
      IN decodeBits(hashValue, bits - 1, nbox)

\* the loop over the characters (lines 106-129)
RECURSIVE decodeChars(_, _, _)
decodeChars(hash_string, i, box) ==
    IF i > Len(hash_string) THEN box
    ELSE decodeChars(hash_string, i + 1,
                     decodeBits(DictLookup(toLowerCase(hash_string[i])), 4, box))

\* decode_bbox(hash_string) = [minLat, minLon, maxLat, maxLon]
decode_bbox(hash_string) ==
    LET box == decodeChars(hash_string, 1,
                   [isLon |-> TRUE, minLat |-> -MaxLat, minLon |-> -MaxLon,
                    maxLat |-> MaxLat, maxLon |-> MaxLon])
    IN << box.minLat, box.minLon, box.maxLat, box.maxLon >>

\* decode(hashString)
decode(hashString) ==
    LET bbox == decode_bbox(hashString)
        lat == (bbox[1] + bbox[3]) \div 2
        lon == (bbox[2] + bbox[4]) \div 2
    IN [latitude |-> lat, longitude |-> lon,
        error |-> [latitude |-> bbox[3] - lat, longitude |-> bbox[4] - lon]]

\* the cell size neighbors() steps by: lonlat.error.* * 2
neighborStepHalf(err) == err
neighborStep(err) == err * 2

\* the direction vectors of neighborHashList, clockwise from north
neighborDirs ==
    << <<1, 0>>, <<1, 1>>, <<0, 1>>, <<-1, 1>>,
       <<-1, 0>>, <<-1, -1>>, <<0, -1>>, <<1, -1>> >>

\* neighbors(hash_string)
neighbors(hash_string) ==
    LET lonlat == decode(hash_string)
        latErr == neighborStep(lonlat.error.latitude)
        lonErr == neighborStep(lonlat.error.longitude)
        encodeNeighbor(neighborLatDir, neighborLonDir) ==
            encode(lonlat.latitude + neighborLatDir * latErr,
                   lonlat.longitude + neighborLonDir * lonErr,
                   Len(hash_string))
    IN [d \in 1..8 |-> encodeNeighbor(neighborDirs[d][1], neighborDirs[d][2])]

-----------------------------------------------------------------------------
(* Strings *)

\* a is a prefix of b
IsPrefix(a, b) == Len(a) <= Len(b) /\ SubSeq(b, 1, Len(a)) = a

\* a <= b in the store's string order: code by code, a prefix first
RECURSIVE StrLeq(_, _)
StrLeq(a, b) ==
    IF a = <<>> THEN TRUE
    ELSE IF b = <<>> THEN FALSE
    ELSE IF Head(a) # Head(b) THEN Head(a) < Head(b)
    ELSE StrLeq(Tail(a), Tail(b))

\* the last character of the range's end: geohash + "z"
rangeEndZ(geohash) == Append(geohash, 122)

\* const end = geohash + "~"
rangeEnd(geohash) == Append(geohash, Tilde)

\* queryByGeohash: orderBy(field.geohash).startAt(geohash).endAt(end), as the
\* test a stored hash passes to be returned
queryByGeohash(geohash, stored) ==
    StrLeq(geohash, stored) /\ StrLeq(stored, rangeEnd(geohash))

-----------------------------------------------------------------------------
(* The pure functions, called on sampled arguments *)

geohashLength == 9

MaxStrLen == 3

SampleLats == { -MaxLat, 1 - MaxLat, -399999, -29999, -1, 0, 1, 30001,
                1234567, MaxLat - 1, MaxLat }

SampleLons == { -MaxLon, 1 - MaxLon, -2345678, -1, 0, 1, 524288,
                MaxLon - 1, MaxLon }

\* "0", "9", "b", "z": the ends of the alphabet and of its two runs
SampleChars == { 48, 57, 98, 122 }

\* "B", "a", "i", "~": not among the 32 symbols
OtherChars == { 66, 97, 105, 126 }

StringsOver(chars, lo, hi) == UNION { [1..n -> chars] : n \in lo..hi }

Return(v) == [kind |-> "return", value |-> v]

NoCall == [op |-> "none"]

CallEncode ==
    /\ call = NoCall
    /\ \E lat \in SampleLats, lon \in SampleLons, n \in 1..geohashLength :
        call' = [op |-> "encode", latitude |-> lat, longitude |-> lon,
                 numberOfChars |-> n, ret |-> Return(encode(lat, lon, n))]
    /\ UNCHANGED searchVars

CallDecodeBbox ==
    /\ call = NoCall
    /\ \E h \in StringsOver(SampleChars \cup OtherChars, 0, MaxStrLen) :
        call' = [op |-> "decode_bbox", hash |-> h, ret |-> Return(decode_bbox(h))]
    /\ UNCHANGED searchVars

CallDecode ==
    /\ call = NoCall
    /\ \E h \in StringsOver(SampleChars \cup OtherChars, 0, MaxStrLen) :
        call' = [op |-> "decode", hash |-> h, ret |-> Return(decode(h))]
    /\ UNCHANGED searchVars

CallNeighbors ==
    /\ call = NoCall
    /\ \E lat \in SampleLats, lon \in SampleLons, n \in 1..geohashLength :
        LET h == encode(lat, lon, n)
        IN call' = [op |-> "neighbors", hash |-> h, ret |-> Return(neighbors(h))]
    /\ UNCHANGED searchVars

CallQueryByGeohash ==
    /\ call = NoCall
    /\ \E c \in StringsOver(SampleChars, 1, MaxStrLen - 1),
          h \in StringsOver(SampleChars, 0, MaxStrLen) :
        call' = [op |-> "queryByGeohash", geohash |-> c, stored |-> h,
                 ret |-> Return(queryByGeohash(c, h))]
    /\ UNCHANGED searchVars

\* the caller takes the returned value; the next call may start
CallDone ==
    /\ call # NoCall
    /\ call' = NoCall
    /\ UNCHANGED searchVars

InitCodec ==
    /\ call = NoCall
    /\ store = {}
    /\ field = <<"geo">>
    /\ pc = "idle"
    /\ center = [lat |-> 0, lng |-> 0]
    /\ radius = 0
    /\ area = <<>>
    /\ status = <<>>
    /\ queries = <<>>
    /\ outcome = "pending"
    /\ result = <<>>
    /\ error = "none"
    /\ gets = 0

NextCodec ==
    \/ CallEncode
    \/ CallDecodeBbox
    \/ CallDecode
    \/ CallNeighbors
    \/ CallQueryByGeohash
    \/ CallDone

SpecCodec == InitCodec /\ [][NextCodec]_vars

-----------------------------------------------------------------------------
(* Claims about the codec, checked under SpecCodec *)

\* C6: a stored hash lies in the range [c, c + "~"] exactly when c is a prefix
\* of it, and a hash of L characters is the 9-character hash of the same
\* point cut to L characters.
C6_RangeIsPrefix ==
    /\ call.op = "queryByGeohash" =>
          (call.ret.value <=> IsPrefix(call.geohash, call.stored))
    /\ call.op = "encode" =>
          call.ret.value =
             SubSeq(encode(call.latitude, call.longitude, geohashLength),
                    1, call.numberOfChars)

C6_Witness ==
    /\ call.op = "queryByGeohash"
    /\ call.ret.value
    /\ Len(call.stored) = Len(call.geohash) + 2
    /\ call.stored[Len(call.stored)] = 122

\* C7: the point a hash decodes to lies in the hash's bounding box, and the
\* encoded point is no further from it than the error bounds, on each axis.
C7_RoundTrip ==
    call.op = "encode" =>
        LET h == call.ret.value
            p == decode(h)
            b == decode_bbox(h)
        IN /\ b[1] <= p.latitude /\ p.latitude <= b[3]
           /\ b[2] <= p.longitude /\ p.longitude <= b[4]
           /\ Abs(call.latitude - p.latitude) <= p.error.latitude
           /\ Abs(call.longitude - p.longitude) <= p.error.longitude

C7_Witness ==
    /\ call.op = "encode"
    /\ call.numberOfChars = geohashLength
    /\ call.latitude = MaxLat
    /\ call.longitude = -MaxLon
    /\ Len(call.ret.value) = geohashLength

\* The point neighbors() encodes for direction d lies on the globe
OffsetOnGlobe(h, d) ==
    LET c == decode(h)
        lat == c.latitude + neighborDirs[d][1] * (c.error.latitude * 2)
        lon == c.longitude + neighborDirs[d][2] * (c.error.longitude * 2)
    IN -MaxLat <= lat /\ lat <= MaxLat /\ -MaxLon <= lon /\ lon <= MaxLon

Opposite(d) == ((d + 3) % 8) + 1

\* C8: a neighbour N of H that is not across a pole or the antimeridian has
\* the length of H, and H is the neighbour of N in the opposite direction.
C8_NeighborSymmetry ==
    call.op = "neighbors" =>
        \A d \in 1..8 :
            OffsetOnGlobe(call.hash, d) =>
                /\ Len(call.ret.value[d]) = Len(call.hash)
                /\ call.ret.value[d] # call.hash
                /\ neighbors(call.ret.value[d])[Opposite(d)] = call.hash

C8_Witness ==
    /\ call.op = "neighbors"
    /\ Len(call.hash) = geohashLength
    /\ \E d \in 1..8 : OffsetOnGlobe(call.hash, d)
    /\ \E d \in 1..8 : ~OffsetOnGlobe(call.hash, d)

HasOtherChar(h) == \E i \in 1..Len(h) : h[i] \notin Alphabet

\* C9: decode and decode_bbox fail on a hash holding a character that is not
\* one of the 32 symbols.
C9_InvalidCharFails ==
    (call.op \in {"decode", "decode_bbox"} /\ HasOtherChar(call.hash)) =>
        call.ret.kind = "throw"

-----------------------------------------------------------------------------
(* geohash.utils.ts: precision, distance, nested keys *)

\* setPrecision(km), the radius given in metres: km <= 0.00477 is
\* 100 * m <= 477
setPrecision(m) ==
    CASE m * 100 <= 477 -> 9
      [] m * 100 <= 3820 -> 8
      [] m * 100 <= 15300 -> 7
      [] m * 100 <= 122000 -> 6
      [] m * 100 <= 489000 -> 5
      [] m * 100 <= 3910000 -> 4
      [] m * 100 <= 15600000 -> 3
      [] m * 100 <= 125000000 -> 2
      [] OTHER -> 1

\* JavaScript's %: the remainder has the sign of the dividend
JSRem(a, n) == IF a >= 0 THEN a % n ELSE -((-a) % n)

-----------------------------------------------------------------------------
(* IEEE 754 double-precision arithmetic *)

\* A natural number of any size is the sequence of its digits in base Limb,
\* the lowest first, with no zero as highest digit.
Limb == 2^15

RECURSIVE NatOf(_)
NatOf(n) == IF n = 0 THEN <<>> ELSE <<n % Limb>> \o NatOf(n \div Limb)

RECURSIVE Trim(_)
Trim(a) ==
    IF a # <<>> /\ a[Len(a)] = 0 THEN Trim(SubSeq(a, 1, Len(a) - 1)) ELSE a

\* a * k + carry, for k < Limb
RECURSIVE MulSmall(_, _, _)
MulSmall(a, k, carry) ==
    IF a = <<>> THEN NatOf(carry)
    ELSE LET p == Head(a) * k + carry
         IN <<p % Limb>> \o MulSmall(Tail(a), k, p \div Limb)

RECURSIVE AddNat(_, _, _)
AddNat(a, b, carry) ==
    IF a = <<>> /\ b = <<>> THEN NatOf(carry)
    ELSE LET x == IF a = <<>> THEN 0 ELSE Head(a)
             y == IF b = <<>> THEN 0 ELSE Head(b)
             t == x + y + carry
         IN <<t % Limb>> \o AddNat(IF a = <<>> THEN a ELSE Tail(a),
                                   IF b = <<>> THEN b ELSE Tail(b), t \div Limb)

RECURSIVE MulNat(_, _)
MulNat(a, b) ==
    IF b = <<>> THEN <<>>
    ELSE AddNat(MulSmall(a, Head(b), 0), <<0>> \o MulNat(a, Tail(b)), 0)

\* quotient and remainder of a by k, for k <= Limb: long division from the
\* highest digit a[i] down, with r the remainder and q the quotient so far
RECURSIVE DivFrom(_, _, _, _, _)
DivFrom(a, i, k, r, q) ==
    IF i = 0 THEN [q |-> q, r |-> r]
    ELSE DivFrom(a, i - 1, k, (r * Limb + a[i]) % k,
                 <<(r * Limb + a[i]) \div k>> \o q)

DivSmall(a, k) == DivFrom(a, Len(a), k, 0, <<>>)

RECURSIVE SmallBits(_)
SmallBits(n) == IF n = 0 THEN 0 ELSE 1 + SmallBits(n \div 2)

\* the number of binary digits of a
BitLen(a) == IF a = <<>> THEN 0 ELSE 15 * (Len(a) - 1) + SmallBits(a[Len(a)])

\* a * 2^n
ShiftLeft(a, n) ==
    [i \in 1..(n \div 15) |-> 0] \o MulSmall(a, 2^(n % 15), 0)

\* a \div 2^n, and whether a binary digit other than 0 was dropped, for
\* d the division of the digits above the lowest k by 2^(n % 15)
ShiftOut(a, k, d) ==
    [q |-> Trim(d.q), nz |-> d.r # 0 \/ \E i \in 1..k : a[i] # 0]

ShiftDigits(a, n, k) ==
    ShiftOut(a, k, DivSmall(SubSeq(a, k + 1, Len(a)), 2^(n % 15)))

ShiftRight(a, n) ==
    ShiftDigits(a, n, IF n \div 15 < Len(a) THEN n \div 15 ELSE Len(a))

\* a <= b for numbers of the same count of digits
RECURSIVE LeqNat(_, _)
LeqNat(a, b) ==
    IF a = <<>> THEN TRUE
    ELSE IF a[Len(a)] # b[Len(b)] THEN a[Len(a)] < b[Len(b)]
    ELSE LeqNat(SubSeq(a, 1, Len(a) - 1), SubSeq(b, 1, Len(b) - 1))

\* a >= b, for numbers with no zero as highest digit
GeqNat(a, b) ==
    Len(a) > Len(b) \/ (Len(a) = Len(b) /\ LeqNat(b, a))

\* a - b - borrow, for a >= b + borrow
RECURSIVE SubNat(_, _, _)
SubNat(a, b, borrow) ==
    IF a = <<>> THEN <<>>
    ELSE LET t == Head(a) - (IF b = <<>> THEN 0 ELSE Head(b)) - borrow
         IN <<t % Limb>> \o SubNat(Tail(a), IF b = <<>> THEN b ELSE Tail(b),
                                   IF t < 0 THEN 1 ELSE 0)

\* the value of a number that fits a machine integer
RECURSIVE NatVal(_)
NatVal(a) == IF a = <<>> THEN 0 ELSE Head(a) + Limb * NatVal(Tail(a))

\* A double is s * m * 2^e with s the sign (1 or -1) and m a number of
\* exactly 53 binary digits, or zero, or NaN.  Subnormal numbers, infinities
\* and the sign of zero do not occur in the ranges of this model.
Zero == [s |-> 1, m |-> <<>>, e |-> 0]

NaN == [s |-> 0, m |-> <<>>, e |-> 0]

IsNaN(x) == x.s = 0

\* the double s * q * 2^e for q of 53 or, after rounding up, 54 digits
Normal(s, q, e) ==
    IF BitLen(q) = 54 THEN [s |-> s, m |-> Trim(DivSmall(q, 2).q), e |-> e + 1]
    ELSE [s |-> s, m |-> q, e |-> e]

\* round to nearest, ties to even: q is the first 53 digits, half the
\* digit after them, rest whether anything other than 0 follows
RoundHalfEven(s, q, e, half, rest) ==
    Normal(s, IF half /\ (rest \/ q[1] % 2 = 1)
              THEN Trim(AddNat(q, <<1>>, 0)) ELSE q, e)

\* sh holds the first 54 digits of the number
RoundShifted(s, sh, e, sticky) ==
    RoundHalfEven(s, Trim(DivSmall(sh.q, 2).q), e, sh.q[1] % 2 = 1,
                  sh.nz \/ sticky)

RoundLen(s, n, e, sticky, len) ==
    IF len <= 53
    THEN [s |-> s, m |-> ShiftLeft(n, 53 - len), e |-> e - (53 - len)]
    ELSE RoundShifted(s, ShiftRight(n, len - 54), e + (len - 53), sticky)

\* the double nearest to s * (n + f) * 2^e, ties to the even significand,
\* where 0 <= f < 1 and f > 0 iff sticky; with sticky, n has over 54 digits
RoundD(s, n, e, sticky) ==
    IF n = <<>> THEN Zero ELSE RoundLen(s, n, e, sticky, BitLen(n))

\* the integer n as a double
FromInt(n) == RoundD(IF n < 0 THEN -1 ELSE 1, NatOf(IF n < 0 THEN -n ELSE n), 0, FALSE)

\* x * y
MulD(x, y) ==
    IF IsNaN(x) \/ IsNaN(y) THEN NaN
    ELSE RoundD(x.s * y.s, Trim(MulNat(x.m, y.m)), x.e + y.e, FALSE)

\* x / k for an integer 0 < k < Limb
DivRound(s, d, e) == RoundD(s, Trim(d.q), e, d.r # 0)

DivD(x, k) ==
    IF IsNaN(x) THEN NaN
    ELSE DivRound(x.s, DivSmall(ShiftLeft(x.m, 30), k), x.e - 30)

\* -x
NegD(x) == [x EXCEPT !.s = -x.s]

\* x with its sign multiplied by s
Signed(s, x) == [x EXCEPT !.s = s * x.s]

\* x + y for x = sx * X * 2^e and y = sy * Y * 2^e
AddMag(sx, X, sy, Y, e) ==
    RoundD(IF sx = sy \/ GeqNat(X, Y) THEN sx ELSE sy,
           IF sx = sy THEN AddNat(X, Y, 0)
           ELSE IF GeqNat(X, Y) THEN Trim(SubNat(X, Y, 0))
           ELSE Trim(SubNat(Y, X, 0)), e, FALSE)

AddAligned(x, y, e) ==
    AddMag(x.s, ShiftLeft(x.m, x.e - e), y.s, ShiftLeft(y.m, y.e - e), e)

AddD(x, y) ==
    IF IsNaN(x) \/ IsNaN(y) THEN NaN
    ELSE IF x.m = <<>> THEN y
    ELSE IF y.m = <<>> THEN x
    ELSE AddAligned(x, y, IF x.e < y.e THEN x.e ELSE y.e)

\* x - y
SubD(x, y) == AddD(x, NegD(y))

\* a digit of the quotient rem / d, for rem < d * Limb: the estimate from the
\* highest digits, which is at most 2 too large when d's highest digit is
\* Limb / 2 or more
QHat(rem, d) ==
    IF Len(rem) < Len(d) THEN 0
    ELSE LET top == IF Len(rem) > Len(d)
                    THEN rem[Len(rem)] * Limb + rem[Len(rem) - 1]
                    ELSE rem[Len(rem)]
         IN IF top \div d[Len(d)] >= Limb THEN Limb - 1 ELSE top \div d[Len(d)]

RECURSIVE QFix(_, _, _)
QFix(rem, d, qhat) ==
    IF GeqNat(rem, Trim(MulSmall(d, qhat, 0))) THEN qhat
    ELSE QFix(rem, d, qhat - 1)

\* long division from the highest digit a[i] down, with rem the remainder
\* and q the quotient so far
RECURSIVE DivLong(_, _, _, _, _)
DivSub(a, i, d, rem, q, qd) ==
    DivLong(a, i - 1, d, Trim(SubNat(rem, Trim(MulSmall(d, qd, 0)), 0)),
            <<qd>> \o q)

DivDigit(a, i, d, rem, q) == DivSub(a, i, d, rem, q, QFix(rem, d, QHat(rem, d)))

DivLong(a, i, d, rem, q) ==
    IF i = 0 THEN [q |-> Trim(q), r |-> rem]
    ELSE DivDigit(a, i, d, Trim(<<a[i]>> \o rem), q)

DivNormal(a, d) == DivLong(a, Len(a), d, <<>>, <<>>)

\* quotient and remainder (times a power of 2) of a by d, d other than zero
DivNat(a, d) ==
    DivNormal(ShiftLeft(a, 15 - SmallBits(d[Len(d)])),
              ShiftLeft(d, 15 - SmallBits(d[Len(d)])))

DivQuot(s, d, e) == RoundD(s, d.q, e, d.r # <<>>)

\* x / y for y other than zero
DivDD(x, y) ==
    IF IsNaN(x) \/ IsNaN(y) THEN NaN
    ELSE IF x.m = <<>> THEN Zero
    ELSE DivQuot(x.s * y.s, DivNat(ShiftLeft(x.m, 60), y.m), x.e - y.e - 60)

\* the largest q with q * q <= n, by Newton's iteration downwards from
\* an r with r * r >= n
RECURSIVE SqrtNewton(_, _)
SqrtNext(n, r, t) == IF GeqNat(t, r) THEN r ELSE SqrtNewton(n, t)

SqrtNewton(n, r) ==
    SqrtNext(n, r, Trim(DivSmall(AddNat(r, DivNat(n, r).q, 0), 2).q))

SqrtRound(root, n, e) == RoundD(1, root, e, Trim(MulNat(root, root)) # n)

SqrtOf(n, e) == SqrtRound(SqrtNewton(n, ShiftLeft(<<1>>, 56)), n, e \div 2)

\* Math.sqrt(x), correctly rounded; NaN below zero
MathSqrt(x) ==
    IF IsNaN(x) THEN NaN
    ELSE IF x.m = <<>> THEN Zero
    ELSE IF x.s < 0 THEN NaN
    ELSE SqrtOf(ShiftLeft(x.m, 58 + (x.e % 2)), x.e - (58 + (x.e % 2)))

\* Math.abs(x)
AbsD(x) == [x EXCEPT !.s = x.s * x.s]

\* x <= y, for x >= 0 and y >= 0; false for NaN
LeqD(x, y) ==
    /\ ~IsNaN(x)
    /\ ~IsNaN(y)
    /\ \/ x.m = <<>>
       \/ /\ y.m # <<>>
          /\ \/ x.e < y.e
             \/ x.e = y.e /\ LeqNat(x.m, y.m)

\* x < y, for x >= 0 and y >= 0; false for NaN
LessD(x, y) == ~IsNaN(x) /\ ~IsNaN(y) /\ ~LeqD(y, x)

\* the integer part of x > 0, for x below 2^15
IntOf(x) ==
    IF x.m = <<>> THEN 0 ELSE NatVal(ShiftRight(x.m, -x.e).q)

\* the upper 32 binary digits of |x| as stored: 11 of the exponent and the
\* first 20 of the significand after its leading 1
HighWord(x) ==
    IF x.m = <<>> THEN 0
    ELSE (x.e + 1074) * 2^20 + x.m[3] \div 4 + x.m[4] * 8192

\* the exponent as stored
ExponentField(x) == HighWord(x) \div 2^20

One == [s |-> 1, m |-> <<0, 0, 0, 128>>, e |-> -52]

Two == [s |-> 1, m |-> <<0, 0, 0, 128>>, e |-> -51]

Half == [s |-> 1, m |-> <<0, 0, 0, 128>>, e |-> -53]

-----------------------------------------------------------------------------
(* Math.sin, Math.cos, Math.atan2: the engine's library (fdlibm) *)

\* S1 .. S6, the coefficients of the sine: -1.66666666666666324348e-01,
\* 8.33333333332248946124e-03, -1.98412698298579493134e-04,
\* 2.75573137070700676789e-06, -2.50507602534068634195e-08,
\* 1.58969099521155010221e-10
sinS ==
    << [s |-> -1, m |-> <<21833, 10922, 21845, 170>>, e |-> -55],
       [s |-> 1, m |-> <<30886, 8737, 17476, 136>>, e |-> -59],
       [s |-> -1, m |-> <<25045, 13186, 1664, 208>>, e |-> -65],
       [s |-> 1, m |-> <<32381, 12131, 30605, 184>>, e |-> -71],
       [s |-> -1, m |-> <<7403, 5207, 6042, 215>>, e |-> -78],
       [s |-> 1, m |-> <<21884, 13727, 25833, 174>>, e |-> -85] >>

\* C1 .. C6, the coefficients of the cosine: 4.16666666666666019037e-02,
\* -1.38888888888741095749e-03, 2.48015872894767294178e-05,
\* -2.75573143513906633035e-07, 2.08757232129817482790e-09,
\* -1.13596475577881948265e-11
cosC ==
    << [s |-> 1, m |-> <<21836, 10922, 21845, 170>>, e |-> -57],
       [s |-> -1, m |-> <<20855, 11650, 1456, 182>>, e |-> -62],
       [s |-> 1, m |-> <<5520, 13206, 1664, 208>>, e |-> -68],
       [s |-> -1, m |-> <<21165, 312, 31038, 147>>, e |-> -74],
       [s |-> 1, m |-> <<12740, 31593, 14970, 143>>, e |-> -81],
       [s |-> -1, m |-> <<14548, 32016, 27558, 199>>, e |-> -89] >>

\* invpio2 = 6.36619772367581382433e-01, 53 digits of 2/pi
invpio2 == [s |-> 1, m |-> <<18563, 23443, 31937, 162>>, e |-> -53]

\* pi/2 in parts of 33 digits: pio2_1, pio2_2, pio2_3 (c) with what is left
\* of pi/2 after each, pio2_1t, pio2_2t, pio2_3t (ct)
pio2 ==
    << [c |-> [s |-> 1, m |-> <<0, 10368, 2029, 201>>, e |-> -52],
        ct |-> [s |-> 1, m |-> <<25393, 13508, 20868, 133>>, e |-> -86]],
       [c |-> [s |-> 1, m |-> <<0, 13504, 20868, 133>>, e |-> -86],
        ct |-> [s |-> 1, m |-> <<28787, 23558, 26152, 152>>, e |-> -121]],
       [c |-> [s |-> 1, m |-> <<0, 23552, 26152, 152>>, e |-> -121],
        ct |-> [s |-> 1, m |-> <<18881, 19008, 3688, 220>>, e |-> -156]] >>

\* pi_o_2 = 1.5707963267948965580e+00
pi_o_2 == [s |-> 1, m |-> <<11544, 10376, 2029, 201>>, e |-> -52]

\* pi_lo = 1.2246467991473531772e-16
pi_lo == [s |-> 1, m |-> <<23559, 26152, 6296, 141>>, e |-> -105]

\* atanhi[0..3], here atanhi[1..4]: atan(0.5), atan(1.0), atan(1.5), atan(inf)
atanhi ==
    << [s |-> 1, m |-> <<15183, 2755, 12700, 237>>, e |-> -54],
       [s |-> 1, m |-> <<11544, 10376, 2029, 201>>, e |-> -53],
       [s |-> 1, m |-> <<30363, 9475, 19503, 251>>, e |-> -53],
       [s |-> 1, m |-> <<11544, 10376, 2029, 201>>, e |-> -52] >>

\* atanlo[0..3], here atanlo[1..4]: what the doubles of atanhi leave out
atanlo ==
    << [s |-> 1, m |-> <<26082, 17502, 11772, 209>>, e |-> -108],
       [s |-> 1, m |-> <<23559, 26152, 6296, 141>>, e |-> -107],
       [s |-> 1, m |-> <<19389, 30177, 7713, 128>>, e |-> -108],
       [s |-> 1, m |-> <<23559, 26152, 6296, 141>>, e |-> -106] >>

\* aT[0..10], here aT[1..11], the coefficients of the arc tangent:
\* 3.33333333333329318027e-01, -1.99999999998764832476e-01,
\* 1.42857142725034663711e-01, -1.11111104054623557880e-01,
\* 9.09088713343650656196e-02, -7.69187620504482999495e-02,
\* 6.66107313738753120669e-02, -5.83357013379057348645e-02,
\* 4.97687799461593236017e-02, -3.65315727442169155270e-02,
\* 1.62858201153657823623e-02
aT ==
    << [s |-> 1, m |-> <<21773, 10922, 21845, 170>>, e |-> -54],
       [s |-> -1, m |-> <<27588, 13105, 26214, 204>>, e |-> -55],
       [s |-> 1, m |-> <<1023, 9217, 9362, 146>>, e |-> -55],
       [s |-> -1, m |-> <<5745, 31814, 18203, 227>>, e |-> -56],
       [s |-> 1, m |-> <<8302, 2712, 5943, 186>>, e |-> -56],
       [s |-> -1, m |-> <<6765, 24297, 17354, 157>>, e |-> -56],
       [s |-> 1, m |-> <<15697, 16800, 13722, 136>>, e |-> -56],
       [s |-> -1, m |-> <<32154, 9661, 30901, 238>>, e |-> -57],
       [s |-> 1, m |-> <<3563, 18668, 27948, 203>>, e |-> -57],
       [s |-> -1, m |-> <<27695, 22740, 20752, 149>>, e |-> -57],
       [s |-> 1, m |-> <<23057, 17989, 13547, 133>>, e |-> -58] >>

\* the upper words of n * pi/2, for the n that angles up to 2 pi reach
npio2_hw ==
    << 1073291771, 1074340347, 1074977148, 1075388923, 1075800698,
       1076025724 >>

\* c[i] + z * (c[i + step] + z * (c[i + 2 * step] + ...))
RECURSIVE Horner(_, _, _, _)
Horner(c, z, i, step) ==
    IF i + step > Len(c) THEN c[i]
    ELSE AddD(c[i], MulD(z, Horner(c, z, i + step, step)))

\* __kernel_sin(x, y, iy): the sine of x + y for |x| <= pi/4; y is taken as
\* 0 when iy = 0
KernelSinV(x, y, iy, z, v, r) ==
    IF iy = 0 THEN AddD(x, MulD(v, AddD(sinS[1], MulD(z, r))))
    ELSE SubD(x, SubD(SubD(MulD(z, SubD(MulD(Half, y), MulD(v, r))), y),
                      MulD(v, sinS[1])))

KernelSinZ(x, y, iy, z) ==
    KernelSinV(x, y, iy, z, MulD(z, x), Horner(sinS, z, 2, 1))

kernel_sin(x, y, iy) ==
    IF HighWord(x) < 1044381696     \* |x| < 2^-27
    THEN x
    ELSE KernelSinZ(x, y, iy, MulD(x, x))

\* x / 4 with the lower 32 digits of its significand cleared
QuarterOf(x) ==
    [s |-> 1, m |-> <<0, 0, (x.m[3] \div 4) * 4, x.m[4]>>, e |-> x.e - 2]

\* qx of __kernel_cos: 0 for |x| < 0.3, where the code leaves qx out, and
\* subtracting 0 changes nothing
KernelCosQx(x) ==
    IF HighWord(x) < 1070805811         \* |x| < 0.3
    THEN Zero
    ELSE IF HighWord(x) > 1072234496    \* |x| > 0.78125
    THEN [s |-> 1, m |-> <<0, 0, 0, 144>>, e |-> -54]
    ELSE QuarterOf(x)

\* a - (hz - (z * r - x * y)) for hz = 0.5 * z - qx and a = 1 - qx
KernelCosR(x, y, z, r, qx) ==
    SubD(SubD(One, qx),
         SubD(SubD(MulD(Half, z), qx), SubD(MulD(z, r), MulD(x, y))))

KernelCosZ(x, y, z) ==
    KernelCosR(x, y, z, MulD(z, Horner(cosC, z, 1, 1)), KernelCosQx(x))

\* __kernel_cos(x, y): the cosine of x + y for |x| <= pi/4
kernel_cos(x, y) ==
    IF HighWord(x) < 1044381696     \* |x| < 2^-27
    THEN One
    ELSE KernelCosZ(x, y, MulD(x, x))

\* one more part of pi/2: r = t - fn * c, w = fn * ct - ((t - r) - fn * c)
RefineW(fn, t, ct, w, r) ==
    [r |-> r, w |-> SubD(MulD(fn, ct), SubD(SubD(t, r), w))]

RefineR(fn, t, ct, w) == RefineW(fn, t, ct, w, SubD(t, w))

Refine(fn, t, p) == RefineR(fn, t, p.ct, MulD(fn, p.c))

\* whether y0 = r - w lost too many digits after k parts of pi/2
RemMore(x, n, y0, k) ==
    CASE k = 1 -> /\ ~(n < 32 /\ HighWord(x) # npio2_hw[n])
                  /\ ExponentField(x) - ExponentField(y0) > 16
      [] k = 2 -> ExponentField(x) - ExponentField(y0) > 49
      [] k = 3 -> FALSE

\* y1 = (r - y0) - w, and the signs of x on n, y0 and y1
RemDone(x, n, r, w, y0) ==
    [n |-> x.s * n, y0 |-> Signed(x.s, y0),
     y1 |-> Signed(x.s, SubD(SubD(r, y0), w)), iy |-> 1]

RECURSIVE RemStage(_, _, _, _, _)
RemStageY(x, n, fn, rw, k, y0) ==
    IF RemMore(x, n, y0, k)
    THEN RemStage(x, n, fn, Refine(fn, rw.r, pio2[k + 1]), k + 1)
    ELSE RemDone(x, n, rw.r, rw.w, y0)

RemStage(x, n, fn, rw, k) == RemStageY(x, n, fn, rw, k, SubD(rw.r, rw.w))

\* |x| < 3 pi/4, n = 1: r and w from the first part of pi/2, or from the
\* second where |x| is close to pi/2.  The code works on x and -x apart; the
\* results for -x are those for x with the other sign.
RemNear(x, z) ==
    IF HighWord(x) # 1073291771
    THEN [r |-> z, w |-> pio2[1].ct]
    ELSE [r |-> SubD(z, pio2[2].c), w |-> pio2[2].ct]

\* the medium case: n = |x| * 2/pi to the nearest integer
RemMedium(x, n, fn) ==
    RemStage(x, n, fn, [r |-> SubD(AbsD(x), MulD(fn, pio2[1].c)),
                       w |-> MulD(fn, pio2[1].ct)], 1)

RemN(x, n) == RemMedium(x, n, FromInt(n))

\* __ieee754_rem_pio2(x): n and y0 + y1 with x = n * pi/2 + y0 + y1 and
\* |y0 + y1| <= pi/4, for |x| <= 2 pi
rem_pio2(x) ==
    IF HighWord(x) <= 1072243195        \* |x| <= pi/4
    THEN [n |-> 0, y0 |-> x, y1 |-> Zero, iy |-> 1]
    ELSE IF HighWord(x) < 1073928572    \* |x| < 3 pi/4
    THEN RemStage(x, 1, One, RemNear(x, SubD(AbsD(x), pio2[1].c)), 3)
    ELSE RemN(x, IntOf(AddD(MulD(AbsD(x), invpio2), Half)))

\* sin and cos: the argument as it reaches the kernels
Reduce(x) ==
    IF HighWord(x) <= 1072243195        \* |x| <= pi/4
    THEN [n |-> 0, y0 |-> x, y1 |-> Zero, iy |-> 0]
    ELSE rem_pio2(x)

\* the kernel of quadrant k: sin, cos, -sin, -cos for k = 0, 1, 2, 3
Kernel(y, k) ==
    IF k % 2 = 0 THEN kernel_sin(y.y0, y.y1, y.iy) ELSE kernel_cos(y.y0, y.y1)

Quadrant(y, k) == Signed(IF k < 2 THEN 1 ELSE -1, Kernel(y, k))

\* sin(x) for shift = 0 and cos(x) for shift = 1: cos takes the kernels of
\* sin one quadrant on
Trig(y, shift) == Quadrant(y, (y.n + shift) % 4)

\* Math.sin(x)
MathSin(x) == IF IsNaN(x) THEN NaN ELSE Trig(Reduce(x), 0)

\* Math.cos(x)
MathCos(x) == IF IsNaN(x) THEN NaN ELSE Trig(Reduce(x), 1)

\* atan(x): id names the reduction of the argument, -1 for none
AtanId(ix) ==
    IF ix < 1071382528 THEN -1      \* |x| < 7/16
    ELSE IF ix < 1072037888 THEN 0  \* |x| < 11/16
    ELSE IF ix < 1072889856 THEN 1  \* |x| < 19/16
    ELSE IF ix < 1073971200 THEN 2  \* |x| < 39/16
    ELSE 3

\* the reduced argument for a = |x|: (2a - 1)/(2 + a), (a - 1)/(a + 1),
\* (a - 1.5)/(1 + 1.5a), -1/a
AtanNum(id, a) ==
    IF id = 3 THEN NegD(One)
    ELSE SubD(IF id = 0 THEN MulD(Two, a) ELSE a,
              IF id = 2 THEN [s |-> 1, m |-> <<0, 0, 0, 192>>, e |-> -52] ELSE One)

AtanDen(id, a) ==
    IF id = 3 THEN a
    ELSE AddD(IF id = 0 THEN Two ELSE One,
              IF id = 2 THEN MulD([s |-> 1, m |-> <<0, 0, 0, 192>>, e |-> -52], a) ELSE a)

\* p = x * (s1 + s2)
AtanEnd(s, id, x, p) ==
    IF id < 0 THEN SubD(x, p)
    ELSE Signed(s, SubD(atanhi[id + 1], SubD(SubD(p, atanlo[id + 1]), x)))

AtanW(s, id, x, z, w) ==
    AtanEnd(s, id, x, MulD(x, AddD(MulD(z, Horner(aT, w, 1, 2)),
                                   MulD(w, Horner(aT, w, 2, 2)))))

AtanZ(s, id, x, z) == AtanW(s, id, x, z, MulD(z, z))

AtanReduced(s, id, x) == AtanZ(s, id, x, MulD(x, x))

AtanOf(x, id) ==
    AtanReduced(x.s, id, IF id < 0 THEN x
                         ELSE DivDD(AtanNum(id, AbsD(x)), AtanDen(id, AbsD(x))))

atan(x) ==
    IF HighWord(x) >= 1141899264        \* |x| >= 2^66
    THEN Signed(x.s, AddD(atanhi[4], atanlo[4]))
    ELSE IF HighWord(x) < 1042284544    \* |x| < 2^-29
    THEN x
    ELSE AtanOf(x, AtanId(HighWord(x)))

\* Math.atan2(y, x), for y >= 0 and x >= 0: the angle of the first quadrant
MathAtan2(y, x) ==
    IF IsNaN(x) \/ IsNaN(y) THEN NaN
    ELSE IF y.m = <<>> /\ x # One THEN y
    ELSE IF x.m = <<>> THEN pi_o_2
    ELSE IF x # One /\ (HighWord(y) - HighWord(x)) \div 2^20 > 60
    THEN AddD(pi_o_2, MulD(Half, pi_lo))
    ELSE atan(IF x = One THEN y ELSE AbsD(DivDD(y, x)))

\* Math.pow(x, 2): the library returns x * x for the exponent 2
MathPow2(x) == MulD(x, x)

-----------------------------------------------------------------------------
(* geohash.utils.ts: distance *)

\* Math.PI = 7074237752028440 * 2^-51
MathPI == [s |-> 1, m |-> <<11544, 10376, 2029, 201>>, e |-> -51]

\* an angle of t ticks as the number of degrees the program holds:
\* t * 180 / 2^23, which is exact
Degrees(t) ==
    RoundD(IF t < 0 THEN -1 ELSE 1, MulSmall(NatOf(Abs(t)), 180, 0), -23, FALSE)

\* a radius of r metres as the number of kilometres the program holds
Km(r) == DivD(FromInt(r), 1000)

\* EARTH_RADIUS = 6371008.8
EARTH_RADIUS == DivD(FromInt(63710088), 10)

\* degreesToRadians(degrees), the degrees given in ticks
degreesToRadians(degrees) ==
    LET radians == Degrees(JSRem(degrees, 2 * HalfTurn))
    IN DivD(MulD(radians, MathPI), 180)

\* radiansToKmLength(radians)
radiansToKmLength(radians) == MulD(radians, DivD(EARTH_RADIUS, 1000))

\* a = sin(dLat/2)^2 + sin(dLon/2)^2 * cos(lat1) * cos(lat2)
haversine(dLat, dLon, lat1, lat2) ==
    AddD(MathPow2(MathSin(DivD(dLat, 2))),
         MulD(MulD(MathPow2(MathSin(DivD(dLon, 2))), MathCos(lat1)),
              MathCos(lat2)))

\* 2 * Math.atan2(Math.sqrt(a), Math.sqrt(1 - a))
angleOf(a) == MulD(Two, MathAtan2(MathSqrt(a), MathSqrt(SubD(One, a))))

centralAngle(dLat, dLon, lat1, lat2) ==
    angleOf(haversine(dLat, dLon, lat1, lat2))

\* flip([a, b]) = [b, a]
flip(arr) == << arr[2], arr[1] >>

\* distance(fromLatLng, toLatLng), the points in ticks, the result in km
distance(fromLatLng, toLatLng) ==
    LET from == flip(fromLatLng)
        to == flip(toLatLng)
        dLat == degreesToRadians(to[2] - from[2])
        dLon == degreesToRadians(to[1] - from[1])
        lat1 == degreesToRadians(from[2])
        lat2 == degreesToRadians(to[2])
    IN radiansToKmLength(centralAngle(dLat, dLon, lat1, lat2))

\* getNestedKey(obj, path, fallbackVal), the path split at "."
RECURSIVE getNestedKeyFrom(_, _, _, _)
getNestedKeyFrom(obj, pList, i, fallbackVal) ==
    IF i > Len(pList)
    THEN IF obj = JSUndefined THEN fallbackVal ELSE obj
    ELSE IF obj.t # "object" THEN fallbackVal
    ELSE getNestedKeyFrom(Get(obj, pList[i]), pList, i + 1, fallbackVal)

getNestedKey(obj, pList, fallbackVal) == getNestedKeyFrom(obj, pList, 1, fallbackVal)

-----------------------------------------------------------------------------
(* The document store *)

TypeError == [t |-> "throw", v |-> "TypeError"]

\* x.key: a TypeError on undefined, undefined on a value with no such key
Prop(x, key) ==
    IF x = TypeError \/ x.t = "undefined" THEN TypeError
    ELSE IF x.t = "object" THEN Get(x, key)
    ELSE JSUndefined

GeoPoint(lat, lng) ==
    JSObject([latitude |-> JSNumber(lat), longitude |-> JSNumber(lng)])

\* createGeoData(lat, lng)
createGeoData(lat, lng) ==
    JSObject([geopoint |-> GeoPoint(lat, lng),
              geohash |-> JSString(encode(lat, lng, geohashLength))])

\* a GeoData whose geopoint was never written
GeoHashOnly(lat, lng) ==
    JSObject([geohash |-> JSString(encode(lat, lng, geohashLength))])

\* the object holding value at the path
RECURSIVE AtPath(_, _)
AtPath(pList, value) ==
    IF pList = <<>> THEN value
    ELSE JSObject([k \in {Head(pList)} |-> AtPath(Tail(pList), value)])

Fields == { <<"geo">>, <<"loc", "geo">>, <<"site", "loc", "geo">> }

\* The documents collections are drawn from, all on the meridian 0:
\* [id, lat, dataId ("" for a document with no field named id), geopoint].
\* d6 holds a field named id whose value is the name of d1; d8 holds a
\* geohash and no geopoint; d9 lies next to the north pole.
PoolSpecs ==
    << [id |-> "d1", lat |-> 30001, dataId |-> "", geopoint |-> TRUE],
       [id |-> "d2", lat |-> -29999, dataId |-> "", geopoint |-> TRUE],
       [id |-> "d3", lat |-> -399999, dataId |-> "", geopoint |-> TRUE],
       [id |-> "d4", lat |-> 421001, dataId |-> "", geopoint |-> TRUE],
       [id |-> "d6", lat |-> -59999, dataId |-> "d1", geopoint |-> TRUE],
       [id |-> "d8", lat |-> 30001, dataId |-> "", geopoint |-> FALSE],
       [id |-> "d9", lat |-> MaxLat - 30000, dataId |-> "", geopoint |-> TRUE] >>

DocOf(spec, f) ==
    LET geo == IF spec.geopoint THEN createGeoData(spec.lat, 0)
                                ELSE GeoHashOnly(spec.lat, 0)
        own == IF spec.dataId = "" THEN JSObject(<<>>)
               ELSE JSObject([id |-> JSString(spec.dataId)])
    IN [id |-> spec.id, data |-> Spread(own, AtPath(f, geo))]

\* the documents of the collections that keep their GeoData under f
DocsUnder(f) ==
    CASE f = <<"geo">> -> {"d1", "d2", "d3", "d4", "d6", "d8"}
      [] f = <<"loc", "geo">> -> {"d1", "d2", "d6"}
      [] f = <<"site", "loc", "geo">> -> {"d1", "d9"}

Pool(f) ==
    { DocOf(PoolSpecs[i], f) :
        i \in { j \in 1..Len(PoolSpecs) : PoolSpecs[j].id \in DocsUnder(f) } }

\* the store's order of document names
DocRank(id) == CHOOSE i \in 1..Len(PoolSpecs) : PoolSpecs[i].id = id

\* the value the store orders and filters by: <field>.geohash
OrderKey(doc, f) == getNestedKey(doc.data, Append(f, "geohash"), JSUndefined)

\* d1 comes before d2 in a snapshot ordered by <field>.geohash
DocBefore(d1, d2, f) ==
    LET k1 == OrderKey(d1, f).v
        k2 == OrderKey(d2, f).v
    IN IF k1 = k2 THEN DocRank(d1.id) <= DocRank(d2.id) ELSE StrLeq(k1, k2)

RECURSIVE Ordered(_, _)
Ordered(docs, f) ==
    IF docs = {} THEN <<>>
    ELSE LET first == CHOOSE d \in docs : \A e \in docs : DocBefore(d, e, f)
         IN <<first>> \o Ordered(docs \ {first}, f)

\* query.get() for queryByGeohash(fsQuery, geohash, field): the documents
\* holding a string at <field>.geohash within the range, in its order
QuerySnap(docs, geohash, f) ==
    Ordered({ d \in docs : /\ OrderKey(d, f).t = "string"
                           /\ queryByGeohash(geohash, OrderKey(d, f).v) }, f)

-----------------------------------------------------------------------------
(* geohash.service.ts: performSearch *)

MaxDocs == 2

\* how many of the nine queries of a search fail
MaxFailures == 1

Cells == 1..9

\* snapToData(querySnap, id = "id"): { [id]: v.id, ...v.data() } per document
snapToData(docs) ==
    [j \in 1..Len(docs) |->
        Spread(JSObject([id |-> JSString(docs[j].id)]), docs[j].data)]

\* getGeoPoint(val, fieldPath)
getGeoPoint(val, fieldPath) ==
    IF Len(fieldPath) > 1
    THEN Prop(getNestedKey(val, fieldPath, JSUndefined), "geopoint")
    ELSE Prop(Prop(val, fieldPath[1]), "geopoint")

\* const { latitude, longitude } = this.getGeoPoint(val, field) throws
Throws(val, fieldPath) ==
    getGeoPoint(val, fieldPath) \in {TypeError, JSUndefined}

\* [latitude, longitude] of a record whose geopoint is there
LatLng(val, fieldPath) ==
    LET p == getGeoPoint(val, fieldPath)
    IN << Get(p, "latitude").v, Get(p, "longitude").v >>

\* const radiusBuffer = radius * 1.01, the radius in metres
radiusBuffer(r) == MulD(Km(r), DivD(FromInt(101), 100))

\* distance <= radiusBuffer
WithinBuffer(d, r) == LeqD(d, radiusBuffer(r))

\* arr.findIndex((v) => v.id === val.id)
findIndex(arr, val) ==
    CHOOSE p \in 1..Len(arr) :
        /\ Get(arr[p], "id") = Get(val, "id")
        /\ \A q \in 1..(p - 1) : Get(arr[q], "id") # Get(val, "id")

\* the filter callback without the test of the first occurrence
keepsAnyOccurrence(val, pos, arr, c, r, f) ==
    WithinBuffer(distance(<<c.lat, c.lng>>, LatLng(val, f)), r)

\* the filter callback (lines 71-78), for a record that does not throw
keeps(val, pos, arr, c, r, f) ==
    /\ WithinBuffer(distance(<<c.lat, c.lng>>, LatLng(val, f)), r)
    /\ findIndex(arr, val) = pos

\* queries.reduce((acc, curr) => acc.concat(curr), [])
RECURSIVE reduceConcat(_, _)
reduceConcat(qs, i) ==
    IF i > Len(qs) THEN <<>> ELSE qs[i] \o reduceConcat(qs, i + 1)

RECURSIVE filterFrom(_, _, _, _, _)
filterFrom(arr, pos, c, r, f) ==
    IF pos > Len(arr) THEN <<>>
    ELSE (IF keeps(arr[pos], pos, arr, c, r, f) THEN <<arr[pos]>> ELSE <<>>)
         \o filterFrom(arr, pos + 1, c, r, f)

\* the map callback (lines 81-88): { ...val, geoMetadata }
withMetadata(val, c, f) ==
    Spread(val, JSObject([geoMetadata |->
        JSObject([distance |-> JSNumber(distance(<<c.lat, c.lng>>, LatLng(val, f)))])]))

DistanceOf(entry) == Get(Get(entry, "geoMetadata"), "distance").v

\* Array.prototype.sort with (a, b) => a.distance - b.distance: stable, so
\* an element goes behind those the comparator does not put after it; the
\* difference is positive iff b.distance < a.distance
RECURSIVE insertSorted(_, _)
insertSorted(sorted, x) ==
    IF sorted = <<>> THEN <<x>>
    ELSE IF LessD(DistanceOf(x), DistanceOf(Head(sorted))) THEN <<x>> \o sorted
    ELSE <<Head(sorted)>> \o insertSorted(Tail(sorted), x)

RECURSIVE sortByDistance(_, _)
sortByDistance(arr, n) ==
    IF n = 0 THEN <<>> ELSE insertSorted(sortByDistance(arr, n - 1), arr[n])

\* Promise.all settles as rejected with the first rejection and as fulfilled
\* once every promise is
promiseAllSettled(st) ==
    IF \A i \in DOMAIN st : st[i] # "pending" THEN "fulfilled" ELSE "pending"

promiseAll(st) ==
    IF \E i \in DOMAIN st : st[i] = "rejected" THEN "rejected"
    ELSE IF \A i \in DOMAIN st : st[i] = "resolved" THEN "fulfilled"
    ELSE "pending"

\* the value of a promise, kept in the order the promises resolve
settleInArrivalOrder(qs, st, i, value) ==
    [qs EXCEPT ![1 + Cardinality({j \in DOMAIN st : st[j] = "resolved"})] = value]

\* Promise.all keeps each value at the index of its promise
settle(qs, st, i, value) == [qs EXCEPT ![i] = value]

\* the searches made on a collection that keeps its GeoData under the
\* given field: a center just north of the equator and one at the north
\* pole, with radii of 1000 km and 100 km
Searches ==
    { [field |-> <<"geo">>, center |-> [lat |-> 1, lng |-> 0], radius |-> 1000000],
      [field |-> <<"loc", "geo">>, center |-> [lat |-> 1, lng |-> 0], radius |-> 100000],
      [field |-> <<"site", "loc", "geo">>, center |-> [lat |-> MaxLat, lng |-> 0],
       radius |-> 1000000] }

Init ==
    /\ \E f \in Fields :
        /\ field = f
        /\ store \in { S \in SUBSET Pool(f) : Cardinality(S) <= MaxDocs }
    /\ pc = "idle"
    /\ center = [lat |-> 0, lng |-> 0]
    /\ radius = 0
    /\ area = <<>>
    /\ status = <<>>
    /\ queries = <<>>
    /\ outcome = "pending"
    /\ result = <<>>
    /\ error = "none"
    /\ gets = 0
    /\ call = NoCall

\* performSearch up to the await (lines 53-68): the nine queries are sent
PerformSearch ==
    /\ pc = "idle"
    /\ \E s \in { x \in Searches : x.field = field } :
        LET precision == setPrecision(s.radius)
            centerHash == SubSeq(encode(s.center.lat, s.center.lng, geohashLength),
                                 1, precision)
        IN /\ center' = s.center
           /\ radius' = s.radius
           /\ area' = neighbors(centerHash) \o <<centerHash>>
    /\ status' = [i \in Cells |-> "pending"]
    /\ queries' = [i \in Cells |-> <<>>]
    /\ gets' = gets + Cardinality(Cells)
    /\ pc' = "await"
    /\ UNCHANGED <<store, field, outcome, result, error, call>>

\* get() of query i returns its snapshot and the callback of line 62 maps it
\* with snapToData; this happens whether or not the search has settled
QueryResolves(i) ==
    /\ pc # "idle"
    /\ status[i] = "pending"
    /\ status' = [status EXCEPT ![i] = "resolved"]
    /\ queries' = settle(queries, status, i,
                         snapToData(QuerySnap(store, area[i], field)))
    /\ UNCHANGED <<store, field, pc, center, radius, area, outcome, result,
                   error, gets, call>>

\* get() of query i fails and the promise of its callback rejects; the
\* search learns of it in a later turn (AwaitThrows)
QueryRejects(i) ==
    /\ pc # "idle"
    /\ status[i] = "pending"
    /\ Cardinality({ j \in Cells : status[j] = "rejected" }) < MaxFailures
    /\ status' = [status EXCEPT ![i] = "rejected"]
    /\ UNCHANGED <<store, field, pc, center, radius, area, queries, outcome,
                   result, error, gets, call>>

\* Promise.all has rejected and the await of line 68 throws: performSearch
\* rejects.  The turns of the job queue between the failure of a query and
\* this one run no code of performSearch; callbacks of other queries run in
\* between.
AwaitThrows ==
    /\ pc = "await"
    /\ promiseAll(status) = "rejected"
    /\ pc' = "done"
    /\ outcome' = "rejected"
    /\ error' = "query"
    /\ UNCHANGED <<store, field, center, radius, area, status, queries, result,
                   gets, call>>

\* performSearch after the await (lines 69-89)
Aggregate ==
    /\ pc = "await"
    /\ promiseAll(status) = "fulfilled"
    /\ pc' = "done"
    /\ LET reduced == reduceConcat(queries, 1)
       IN IF \E p \in 1..Len(reduced) : Throws(reduced[p], field)
          THEN /\ outcome' = "rejected"
               /\ error' = "TypeError"
               /\ UNCHANGED result
          ELSE LET filtered == filterFrom(reduced, 1, center, radius, field)
                   mapped == [k \in 1..Len(filtered) |->
                                 withMetadata(filtered[k], center, field)]
               IN /\ outcome' = "fulfilled"
                  /\ result' = sortByDistance(mapped, Len(mapped))
                  /\ UNCHANGED error
    /\ UNCHANGED <<store, field, center, radius, area, status, queries, gets, call>>

Next ==
    \/ PerformSearch
    \/ \E i \in Cells : QueryResolves(i)
    \/ \E i \in Cells : QueryRejects(i)
    \/ AwaitThrows
    \/ Aggregate

Spec == Init /\ [][Next]_vars

-----------------------------------------------------------------------------
(* Claims about performSearch, checked under Spec *)

IdOf(val) == Get(val, "id")

\* the flattened sequence the filter runs on
Flattened == reduceConcat(queries, 1)

\* the flattened sequence in the order of the cells, from the store alone
CellOrderFlattened ==
    reduceConcat([i \in Cells |-> snapToData(QuerySnap(store, area[i], field))], 1)

FirstOccurrence(arr, p) == \A q \in 1..(p - 1) : IdOf(arr[q]) # IdOf(arr[p])

InBuffer(val) ==
    WithinBuffer(distance(<<center.lat, center.lng>>, LatLng(val, field)), radius)

\* a result entry without the geoMetadata it was given
Stripped(entry) ==
    JSObject([k \in (DOMAIN entry.v) \ {"geoMetadata"} |-> entry.v[k]])

EntriesOf(id) == { k \in 1..Len(result) : IdOf(result[k]) = id }

\* C1: the result holds, once, each record that is the first of its
\* identifier in the flattened sequence and lies within radius * 1.01, and
\* nothing else; no identifier appears twice.
C1_DedupFilter ==
    outcome = "fulfilled" =>
        /\ \A k \in 1..Len(result) :
              \E p \in 1..Len(Flattened) :
                  /\ Stripped(result[k]) = Flattened[p]
                  /\ FirstOccurrence(Flattened, p)
                  /\ InBuffer(Flattened[p])
        /\ \A p \in 1..Len(Flattened) :
              Cardinality(EntriesOf(IdOf(Flattened[p]))) =
                 IF \E q \in 1..p : /\ IdOf(Flattened[q]) = IdOf(Flattened[p])
                                    /\ FirstOccurrence(Flattened, q)
                                    /\ InBuffer(Flattened[q])
                 THEN 1 ELSE 0

C1_Witness ==
    /\ outcome = "fulfilled"
    /\ \E p, q \in 1..Len(Flattened) :
          /\ p < q
          /\ Flattened[p] = Flattened[q]
          /\ InBuffer(Flattened[p])
          /\ Cardinality(EntriesOf(IdOf(Flattened[p]))) = 1

FirstIndexOf(arr, id) ==
    CHOOSE p \in 1..Len(arr) : IdOf(arr[p]) = id /\ FirstOccurrence(arr, p)

\* C2: whatever the order the queries completed in, the result is the
\* retained records of the cell-order sequence, ascending by distance, those
\* of equal distance in the order of that sequence.
C2_OrderIndependent ==
    outcome = "fulfilled" =>
        LET flat == CellOrderFlattened
        IN /\ { Stripped(result[k]) : k \in 1..Len(result) } =
                 { flat[p] : p \in { x \in 1..Len(flat) :
                                       FirstOccurrence(flat, x) /\ InBuffer(flat[x]) } }
           /\ \A k \in 1..Len(result) :
                 DistanceOf(result[k]) =
                    distance(<<center.lat, center.lng>>, LatLng(result[k], field))
           /\ \A k \in 1..(Len(result) - 1) :
                 \/ LessD(DistanceOf(result[k]), DistanceOf(result[k + 1]))
                 \/ /\ DistanceOf(result[k]) = DistanceOf(result[k + 1])
                    /\ FirstIndexOf(flat, IdOf(result[k])) <
                          FirstIndexOf(flat, IdOf(result[k + 1]))

C2_Witness ==
    /\ outcome = "fulfilled"
    /\ Len(result) = 2
    /\ DistanceOf(result[1]) = DistanceOf(result[2])
    /\ \E i, j \in Cells :
          /\ i < j
          /\ queries[i] = <<Stripped(result[1])>>
          /\ queries[j] = <<Stripped(result[2])>>

\* C3: a search one of whose queries has failed never fulfils and yields no
\* list, whatever the other queries did before the failure and do after it:
\* Promise.all has rejected, and the search, when it has ended, has rejected
\* with the failure; and no query is sent a second time.
C3_AllOrNothing ==
    /\ (\E i \in DOMAIN status : status[i] = "rejected") =>
          /\ promiseAll(status) = "rejected"
          /\ outcome # "fulfilled"
          /\ result = <<>>
          /\ pc = "done" => (outcome = "rejected" /\ error = "query")
    /\ gets <= Cardinality(Cells)

\* a search that rejected while queries were still out, all of which
\* returned records or nothing afterwards
C3_Witness ==
    /\ pc = "done"
    /\ outcome = "rejected"
    /\ \E i \in DOMAIN status : status[i] = "rejected"
    /\ \E i \in DOMAIN status : status[i] = "resolved" /\ queries[i] # <<>>
    /\ Cardinality({ i \in DOMAIN status : status[i] = "resolved" }) = 8

\* C4: a returned record with no GeoData at the field path is left out, the
\* search succeeds and returns the other records.
C4_MissingFieldExcluded ==
    (pc = "done" /\ promiseAll(status) = "fulfilled") =>
        /\ outcome = "fulfilled"
        /\ \A k \in 1..Len(result) : ~Throws(result[k], field)
        /\ \A p \in 1..Len(Flattened) :
              (/\ ~Throws(Flattened[p], field)
               /\ FirstOccurrence(Flattened, p)
               /\ InBuffer(Flattened[p]))
              => \E k \in 1..Len(result) : Stripped(result[k]) = Flattened[p]

\* the geopoint and geohash a document keeps under the field
GeoDataOf(doc) == getNestedKey(doc.data, field, JSUndefined)

HasGeoPoint(doc) == ~Throws(doc.data, field)

DocDistance(doc) ==
    distance(<<center.lat, center.lng>>, LatLng(doc.data, field))

\* C5: every stored record within the radius has a hash in one of the nine
\* cells, and is in the result.
C5_CellsCoverCircle ==
    pc # "idle" =>
        \A d \in store :
            (HasGeoPoint(d) /\ LeqD(DocDistance(d), Km(radius))) =>
                /\ \E i \in Cells : IsPrefix(area[i], Get(GeoDataOf(d), "geohash").v)
                /\ outcome = "fulfilled" =>
                      \E k \in 1..Len(result) :
                          LatLng(result[k], field) = LatLng(d.data, field)

\* the documents some query returned
Returned ==
    { d \in store : \E i \in Cells :
        /\ status[i] = "resolved"
        /\ \E j \in 1..Len(QuerySnap(store, area[i], field)) :
              QuerySnap(store, area[i], field)[j] = d }

\* C10: a flattened record's identifier is the name of its document, so that
\* the result has an entry for each returned document within the buffer.
C10_DocIdIsIdentifier ==
    /\ \A i \in DOMAIN status :
          status[i] = "resolved" =>
             \A j \in 1..Len(queries[i]) :
                 IdOf(queries[i][j]) = JSString(QuerySnap(store, area[i], field)[j].id)
    /\ outcome = "fulfilled" =>
          Len(result) =
             Cardinality({ d \in Returned : WithinBuffer(DocDistance(d), radius) })

=============================================================================
